---- MODULE Spec2Model ----
(***************************************************************************)
(* Model of firmware/src/MightyBoard/Motherboard/StepperAxis.cc:           *)
(* stepperAxisInit (hard and soft), stepperAxisStepsToMM and               *)
(* stepperAxisMMToSteps, together with the shared state the file declares. *)
(*                                                                         *)
(* Number representation.  TLC integers are 32 bit, so:                    *)
(*  - steps_per_mm (a float in the code, eeprom value / 1000000.0) is held *)
(*    as the eeprom value itself, i.e. in units of 1e-6 steps/mm;          *)
(*  - max_feedrate (eeprom value / 60.0, passed through FTOFP) is held as  *)
(*    the eeprom value, i.e. in units of 1/60 mm/s; FTOFP/FPTOF are macros *)
(*    defined outside this file;                                           *)
(*  - a float mm argument is held in units of 1/MM_SCALE mm;               *)
(*  - float products are computed exactly (no 24 bit mantissa rounding);   *)
(*  - a float -> int32 conversion whose value does not fit, and a signed   *)
(*    int32 overflow, are undefined in C: the model draws the result from  *)
(*    UBInt32.                                                             *)
(***************************************************************************)
EXTENDS Integers, Sequences, FiniteSets, TLC

STEPPER_COUNT == 5
EXTRUDERS == 2
X_AXIS == 0
Y_AXIS == 1
Z_AXIS == 2
A_AXIS == 3
B_AXIS == 4

Axes == 0 .. (STEPPER_COUNT - 1)
Extruders == 0 .. (EXTRUDERS - 1)

MaxInt32 == 2147483647
MinInt32 == (-2147483647) - 1

\* Results an out-of-range float -> int32 conversion or a signed overflow may give.
UBInt32 == {MinInt32, -1, 0, MaxInt32}

\* Resolution of the fixed-point stand-in for a float mm value: 1/MM_SCALE mm.
MM_SCALE == 10 ^ 4

\* Bound on the number of eeprom / external writes in one behaviour.
MaxWrites == 2

----------------------------------------------------------------------------
(* Input domains *)

\* eeprom AXIS_STEPS_PER_MM words (steps/mm * 1e6): 0, 88.57, 100, 400
SpmValues == {0, 88570000, 100000000, 400000000}
\* eeprom AXIS_MAX_FEEDRATES words (mm/min)
FeedValues == {0, 18000, 180000}
\* eeprom AXIS_LENGTHS words (mm)
LengthValues == {0, 150, 30000000}
\* eeprom AXIS_HOME_POSITIONS_STEPS word of Z, as the (int32_t) cast reads it
HomeValues == {0, 70000, -100}
\* eeprom AXIS_INVERSION byte
AxisInvertValues == {0, 21}
\* eeprom ENDSTOP_INVERSION byte (bit 7: endstops present)
EndstopInvertValues == {0, 21, 128, 149, 138}
\* mm arguments of the conversions, in 1/MM_SCALE mm:
\* 0, 0.0029, 1.2345, -1.2345, 100, -100
MmValues == {0, 29, 12345, -12345, 1000000, -1000000}

----------------------------------------------------------------------------
(* Arithmetic of the C code *)

\* C integer division truncates toward zero; \div rounds down.  b > 0.
TruncPos(a, b) ==
  LET q == a \div b
  IN  IF a < 0 /\ a % b # 0 THEN q + 1 ELSE q

\* a / b for int32 a and b # 0 (a = MinInt32, b = -1 excepted)
TruncDiv(a, b) ==
  IF b > 0 THEN TruncPos(a, b)
  ELSE IF b = MinInt32 THEN (IF a = MinInt32 THEN 1 ELSE 0)
  ELSE -TruncPos(a, -b)

\* (b & (1<<i)) != 0 for a byte b
BitSet(b, i) == ((b \div (2 ^ i)) % 2) = 1

\* One step of binary long multiplication, most significant bit of b first:
\* acc = <<q, r, overflow>> holds (b div 2^(k+1)) * a = q * c + r.
RECURSIVE MulDivStep(_, _, _, _, _)
MulDivStep(a, b, c, k, acc) ==
  IF k < 0 THEN acc
  ELSE LET bit == (b \div (2 ^ k)) % 2
           r2  == 2 * acc[2] + bit * (a % c)
           add == r2 \div c + bit * (a \div c)
           ovf == acc[3] \/ acc[1] > (MaxInt32 - add) \div 2
       IN  MulDivStep(a, b, c, k - 1,
                      <<IF ovf THEN MaxInt32 ELSE 2 * acc[1] + add, r2 % c, ovf>>)

\* a * b / c for 0 <= a, b <= MaxInt32 and 0 < c < 2^29, without leaving 32 bits:
\* <<quotient, remainder, overflow>> with a * b = quotient * c + remainder,
\* overflow when the quotient exceeds MaxInt32.
MulDivMod(a, b, c) == MulDivStep(a, b, c, 30, <<0, 0, FALSE>>)

\* MulDivMod on the products stepperAxisInit can meet, computed once
MulDivKeys ==
  (LengthValues \X SpmValues \X {1000000}) \cup (SpmValues \X FeedValues \X {60000000})

MulDivTable == { <<t, MulDivMod(t[1], t[2], t[3])>> : t \in MulDivKeys }

\* (int32_t) of the non-negative float value a * b / c
FloatToInt32(a, b, c) ==
  LET p == IF <<a, b, c>> \in MulDivKeys
             THEN (CHOOSE e \in MulDivTable : e[1] = <<a, b, c>>)[2]
             ELSE MulDivMod(a, b, c)
  IN  IF p[3] THEN UBInt32 ELSE {p[1]}

\* - x in int32
Neg32(x) == IF x = MinInt32 THEN UBInt32 ELSE {-x}

\* x - y in int32
Sub32(x, y) ==
  IF (y < 0 /\ x > MaxInt32 + y) \/ (y > 0 /\ x < MinInt32 + y)
    THEN UBInt32
    ELSE {x - y}

----------------------------------------------------------------------------
VARIABLES
  build,                \* compile-time switches PSTOP_SUPPORT, Z_HOME_MAX
  eeprom,               \* what eeprom::getEeprom8 / getEeprom32 return
  stepperAxisPorts,     \* per axis: is the minimum / maximum port STEPPER_NULL
  pstop_enable,
  ports,                \* direction and level written to each axis's pins
  pstop_port,           \* direction and level written to PSTOP_PORT
  stepperAxis,
  dda_position,
  axis_homing,
  e_steps,
  axesEnabled,
  axesHardwareEnabled,
  last,                 \* the operation that produced this state
  nwrites,              \* eeprom / external writes so far
  pc,                   \* position of a stepwise stepperAxisInit(true)
  isr,                  \* what the stepping interrupt last observed
  conv                  \* arguments and result of the last conversion call

vars == <<build, eeprom, stepperAxisPorts, pstop_enable, ports, pstop_port, stepperAxis,
          dda_position, axis_homing, e_steps, axesEnabled, axesHardwareEnabled,
          last, nwrites, pc, isr, conv>>

progVars == <<stepperAxisPorts, pstop_enable, ports, pstop_port, stepperAxis, dda_position,
              axis_homing, e_steps, axesEnabled, axesHardwareEnabled>>

\* struct dda as stepperAxisInit leaves it
DdaReset(i) ==
  [eAxis |-> i >= A_AXIS, counter |-> 0, direction |-> 1, stepperDir |-> FALSE,
   master |-> FALSE, master_steps |-> 0, steps_completed |-> 0, steps |-> 0]

\* zero-initialised statics
DdaZero ==
  [eAxis |-> FALSE, counter |-> 0, direction |-> 0, stepperDir |-> FALSE,
   master |-> FALSE, master_steps |-> 0, steps_completed |-> 0, steps |-> 0]

AxisZero ==
  [invert_endstop |-> FALSE, invert_axis |-> FALSE, steps_per_mm |-> 0,
   max_feedrate |-> 0, min_interval |-> 0, min_axis_steps_limit |-> 0,
   max_axis_steps_limit |-> 0, hasHomed |-> FALSE, hasDefinePosition |-> FALSE,
   dda |-> DdaZero]

\* pins at power-on: inputs, no pull-up
PinsZero ==
  [dir_out |-> FALSE, step_out |-> FALSE, enable_out |-> FALSE,
   enable_level |-> FALSE, max_out |-> FALSE, max_level |-> FALSE,
   min_out |-> FALSE, min_level |-> FALSE]

\* the port table: A and B have no endstops; with PSTOP_SUPPORT X starts without minimum
PortTable(b) ==
  [i \in Axes |->
     [min_null |-> (i >= A_AXIS) \/ (i = X_AXIS /\ b.PSTOP_SUPPORT),
      max_null |-> (i >= A_AXIS)]]

\* the builds checked: the default one, and one with both switches defined
DefaultBuild == [PSTOP_SUPPORT |-> FALSE, Z_HOME_MAX |-> FALSE]

Builds == {DefaultBuild, [PSTOP_SUPPORT |-> TRUE, Z_HOME_MAX |-> TRUE]}

PcIdle == [at |-> "idle", axis |-> 0, axes_invert |-> 0, endstops_invert |-> 0, length |-> 0]
IsrNone == [enabled |-> FALSE, ran |-> FALSE, mid |-> FALSE, axis |-> 0, min |-> 0, max |-> 0]
ConvNone ==
  [op |-> "none", mm |-> 0, axis |-> 0, steps_per_mm |-> 0, steps |-> 0,
   finite |-> TRUE, back |-> 0]

Init ==
  /\ build \in Builds
  /\ eeprom = [AXIS_INVERSION |-> 0, ENDSTOP_INVERSION |-> 128, PSTOP_ENABLE |-> 0,
               AXIS_STEPS_PER_MM |-> [i \in Axes |-> 88570000],
               AXIS_MAX_FEEDRATES |-> [i \in Axes |-> 18000],
               AXIS_LENGTHS |-> [i \in Axes |-> 150],
               AXIS_HOME_POSITIONS_STEPS |-> 0]
  /\ stepperAxisPorts = PortTable(build)
  /\ pstop_enable = 0
  /\ ports = [i \in Axes |-> PinsZero]
  /\ pstop_port = [output |-> FALSE, level |-> FALSE]
  /\ stepperAxis = [i \in Axes |-> AxisZero]
  /\ dda_position = [i \in Axes |-> 0]
  /\ axis_homing = [i \in Axes |-> FALSE]
  /\ e_steps = [j \in Extruders |-> 0]
  /\ axesEnabled = 0
  /\ axesHardwareEnabled = 0
  /\ last = "boot"
  /\ nwrites = 0
  /\ pc = PcIdle
  /\ isr = IsrNone
  /\ conv = ConvNone

----------------------------------------------------------------------------
(* stepperAxisInit, piece by piece *)

\* Variant: the endstops-present bit is not consulted.
InvertEndstopIgnoringPresence(endstops_invert, i) == BitSet(endstops_invert, i)

\* !endstops_present || ((endstops_invert & (1<<i)) != 0)
InvertEndstop(endstops_invert, i) ==
  (~BitSet(endstops_invert, 7)) \/ BitSet(endstops_invert, i)

\* (axes_invert & (1<<i)) != 0
InvertAxis(axes_invert, i) == BitSet(axes_invert, i)

\* f = (int32_t)(steps_per_mm * FPTOF(max_feedrate)), spm in 1e-6, feed in 1/60
FeedSteps(spm, feed) == FloatToInt32(spm, feed, 60000000)

\* min_interval = f ? 1000000 / f : 500
MinInterval(f) == IF f # 0 THEN TruncDiv(1000000, f) ELSE 500

\* Variant: the product is rounded to the nearest integer instead of cut.
AxisLengthRounded(len_mm, spm) ==
  LET p == MulDivMod(len_mm, spm, 1000000)
  IN  IF p[3] THEN UBInt32 ELSE {IF p[2] >= 500000 THEN p[1] + 1 ELSE p[1]}

\* length = (int32_t)((float)getEeprom32(AXIS_LENGTHS + ...) * steps_per_mm)
AxisLength(len_mm, spm) == FloatToInt32(len_mm, spm, 1000000)

\* *axisMax by axis role
AxisMax(i, length, home, z_home_max) ==
  IF i \in {X_AXIS, Y_AXIS} THEN {TruncDiv(length, 2)}
  ELSE IF i = Z_AXIS THEN (IF z_home_max THEN {home} ELSE Sub32(length, home))
  ELSE {length}

\* *axisMin by axis role, written after *axisMax
AxisMin(i, length, axisMax) ==
  IF i \in {X_AXIS, Y_AXIS} THEN Neg32(axisMax)
  ELSE IF i = Z_AXIS THEN {0}
  ELSE Neg32(length)

\* loading the calibration of axis i (up to the axis length)
AxisCalibration(old, i, axes_invert, endstops_invert, ee) ==
  { [old EXCEPT !.invert_endstop = InvertEndstop(endstops_invert, i),
                !.invert_axis = InvertAxis(axes_invert, i),
                !.steps_per_mm = ee.AXIS_STEPS_PER_MM[i],
                !.max_feedrate = ee.AXIS_MAX_FEEDRATES[i],
                !.min_interval = MinInterval(f)] :
      f \in FeedSteps(ee.AXIS_STEPS_PER_MM[i], ee.AXIS_MAX_FEEDRATES[i]) }

\* the travel limits of axis i
AxisLimits(a, i, ee, z_home_max) ==
  UNION { UNION { { [a EXCEPT !.max_axis_steps_limit = mx,
                              !.min_axis_steps_limit = mn] :
                      mn \in AxisMin(i, length, mx) } :
                  mx \in AxisMax(i, length, ee.AXIS_HOME_POSITIONS_STEPS, z_home_max) } :
          length \in AxisLength(ee.AXIS_LENGTHS[i], a.steps_per_mm) }

\* Variant: hasHomed and hasDefinePosition survive a hard reset.
AxisHardKeepingHomed(old, i, axes_invert, endstops_invert, ee, z_home_max) ==
  UNION { AxisLimits(a, i, ee, z_home_max) :
          a \in AxisCalibration(old, i, axes_invert, endstops_invert, ee) }

\* the hard-reset-only part of one loop iteration, for the axis record
AxisHard(old, i, axes_invert, endstops_invert, ee, z_home_max) ==
  UNION { { [b EXCEPT !.hasHomed = FALSE, !.hasDefinePosition = FALSE] :
              b \in AxisLimits(a, i, ee, z_home_max) } :
          a \in AxisCalibration(old, i, axes_invert, endstops_invert, ee) }

\* the pins of axis i after the hard-reset pin setup
AxisPins(old, port, invert_endstop) ==
  [dir_out |-> TRUE, step_out |-> TRUE, enable_level |-> TRUE, enable_out |-> TRUE,
   max_out |-> IF port.max_null THEN old.max_out ELSE FALSE,
   max_level |-> IF port.max_null THEN old.max_level ELSE invert_endstop,
   min_out |-> IF port.min_null THEN old.min_out ELSE FALSE,
   min_level |-> IF port.min_null THEN old.min_level ELSE invert_endstop]

\* Variant: steps_per_mm is reloaded on every reset.
AxisSoftReloading(a, i) ==
  [a EXCEPT !.dda = DdaReset(i), !.steps_per_mm = eeprom.AXIS_STEPS_PER_MM[i]]

\* the part of a loop iteration run on every reset
AxisSoft(a, i) == [a EXCEPT !.dda = DdaReset(i)]

\* Variant: the final loop is missing.
EStepsKept == e_steps

\* e_steps after the final loop
EStepsReset == [j \in Extruders |-> 0]

\* PSTOP_SUPPORT: pstop_enable and the X minimum port after the first block
PstopEnable(b, ee, old) == IF b.PSTOP_SUPPORT THEN ee.PSTOP_ENABLE ELSE old

PortsAfterPstop(b, pe, table) ==
  IF b.PSTOP_SUPPORT THEN [table EXCEPT ![X_AXIS].min_null = (pe = 1)] ELSE table

PstopPort(b, pe, old) ==
  IF b.PSTOP_SUPPORT /\ pe = 1 THEN [output |-> FALSE, level |-> FALSE] ELSE old

\* stepperAxisInit(true), run to completion
HardReset ==
  LET ai  == eeprom.AXIS_INVERSION
      ei  == eeprom.ENDSTOP_INVERSION
      pe  == PstopEnable(build, eeprom, pstop_enable)
      tab == PortsAfterPstop(build, pe, stepperAxisPorts)
      H(i) == AxisHard(stepperAxis[i], i, ai, ei, eeprom, build.Z_HOME_MAX)
  IN  /\ pc.at = "idle"
      /\ \E a0 \in H(0), a1 \in H(1), a2 \in H(2), a3 \in H(3), a4 \in H(4) :
           LET sa == <<a0, a1, a2, a3, a4>>
           IN  /\ stepperAxis' = [i \in Axes |-> AxisSoft(sa[i + 1], i)]
               /\ ports' = [i \in Axes |->
                              AxisPins(ports[i], tab[i], sa[i + 1].invert_endstop)]
      /\ pstop_enable' = pe
      /\ stepperAxisPorts' = tab
      /\ pstop_port' = PstopPort(build, pe, pstop_port)
      /\ dda_position' = [i \in Axes |-> 0]
      /\ axis_homing' = [i \in Axes |-> FALSE]
      /\ axesEnabled' = 0
      /\ axesHardwareEnabled' = 0
      /\ e_steps' = EStepsReset
      /\ last' = "hard"
      /\ UNCHANGED <<build, eeprom, nwrites, pc, isr, conv>>

\* stepperAxisInit(false)
SoftReset ==
  /\ pc.at = "idle"
  /\ stepperAxis' = [i \in Axes |-> AxisSoft(stepperAxis[i], i)]
  /\ axis_homing' = [i \in Axes |-> FALSE]
  /\ e_steps' = EStepsReset
  /\ last' = "soft"
  /\ UNCHANGED <<build, eeprom, stepperAxisPorts, pstop_enable, ports, pstop_port,
                 dda_position, axesEnabled, axesHardwareEnabled, nwrites, pc, isr, conv>>

----------------------------------------------------------------------------
(* The persisted calibration source, written by the host between resets *)

EepromWrite(ee) ==
  /\ pc.at = "idle"
  /\ nwrites < MaxWrites
  /\ ee # eeprom
  /\ eeprom' = ee
  /\ nwrites' = nwrites + 1
  /\ last' = "eeprom"
  /\ UNCHANGED <<build, progVars, pc, isr, conv>>

\* the host rewrites one axis of each class of the limits switch (X as X/Y,
\* Z, A as A/B); every axis is still loaded by each hard reset
WrittenAxes == {X_AXIS, Z_AXIS, A_AXIS}

WriteStepsPerMM ==
  \E i \in WrittenAxes, v \in SpmValues :
    EepromWrite([eeprom EXCEPT !.AXIS_STEPS_PER_MM[i] = v])

WriteMaxFeedrate ==
  \E i \in WrittenAxes, v \in FeedValues :
    EepromWrite([eeprom EXCEPT !.AXIS_MAX_FEEDRATES[i] = v])

WriteAxisLength ==
  \E i \in WrittenAxes, v \in LengthValues :
    EepromWrite([eeprom EXCEPT !.AXIS_LENGTHS[i] = v])

WriteHomePosition ==
  \E v \in HomeValues :
    EepromWrite([eeprom EXCEPT !.AXIS_HOME_POSITIONS_STEPS = v])

WriteInversion ==
  \/ \E v \in AxisInvertValues : EepromWrite([eeprom EXCEPT !.AXIS_INVERSION = v])
  \/ \E v \in EndstopInvertValues : EepromWrite([eeprom EXCEPT !.ENDSTOP_INVERSION = v])
  \/ \E v \in {0, 1} : EepromWrite([eeprom EXCEPT !.PSTOP_ENABLE = v])

----------------------------------------------------------------------------
(* External collaborators writing the exposed shared state *)

SetBit(b, i) == IF BitSet(b, i) THEN b ELSE b + 2 ^ i

External ==
  /\ pc.at = "idle"
  /\ nwrites < MaxWrites
  /\ nwrites' = nwrites + 1
  /\ last' = "external"
  /\ UNCHANGED <<build, eeprom, stepperAxisPorts, pstop_enable, pstop_port, pc, isr, conv>>

\* the step generator moves axis i one step backwards
ExtStep ==
  \E i \in Axes :
    /\ External
    /\ dda_position' = [dda_position EXCEPT ![i] = @ - 1]
    /\ stepperAxis' = [stepperAxis EXCEPT ![i].dda =
         [eAxis |-> i >= A_AXIS, counter |-> -1, direction |-> -1,
          stepperDir |-> TRUE, master |-> TRUE, master_steps |-> 2,
          steps_completed |-> 1, steps |-> 2]]
    /\ e_steps' = IF i >= A_AXIS THEN [e_steps EXCEPT ![i - A_AXIS] = @ - 1] ELSE e_steps
    /\ UNCHANGED <<ports, axis_homing, axesEnabled, axesHardwareEnabled>>

\* axis i, homed before, is being homed again
ExtHoming ==
  \E i \in Axes :
    /\ External
    /\ axis_homing' = [axis_homing EXCEPT ![i] = TRUE]
    /\ stepperAxis' = [stepperAxis EXCEPT ![i].hasHomed = TRUE]
    /\ UNCHANGED <<ports, dda_position, e_steps, axesEnabled, axesHardwareEnabled>>

\* the planner defines the position of axis i
ExtDefinePosition ==
  \E i \in Axes :
    /\ External
    /\ dda_position' = [dda_position EXCEPT ![i] = 1000]
    /\ stepperAxis' = [stepperAxis EXCEPT ![i].hasDefinePosition = TRUE]
    /\ UNCHANGED <<ports, axis_homing, e_steps, axesEnabled, axesHardwareEnabled>>

\* axis i is enabled by the planner; X, Y and Z also in hardware (enable is active low)
ExtEnable ==
  \E i \in Axes :
    /\ External
    /\ axesEnabled' = SetBit(axesEnabled, i)
    /\ axesHardwareEnabled' = IF i < A_AXIS THEN SetBit(axesHardwareEnabled, i)
                                           ELSE axesHardwareEnabled
    /\ ports' = IF i < A_AXIS THEN [ports EXCEPT ![i].enable_level = FALSE] ELSE ports
    /\ UNCHANGED <<stepperAxis, dda_position, axis_homing, e_steps>>

----------------------------------------------------------------------------
(* The unit conversions *)

\* Variant: the final division rounds to the nearest step.
stepperAxisMMToStepsRounding(mm, spm) ==
  LET intmm == TruncDiv(mm * 1000, MM_SCALE)
      ret   == intmm * (spm \div 1000000)
  IN  TruncDiv(ret + (IF ret < 0 THEN -500 ELSE 500), 1000)

\* stepperAxisMMToSteps: mm in 1/MM_SCALE mm, spm in 1e-6 steps/mm.  For the
\* arguments drawn here every intermediate fits 32 bits, so the final
\* (int32_t) cast changes nothing.
stepperAxisMMToSteps(mm, spm) ==
  LET intmm == TruncDiv(mm * 1000, MM_SCALE)
      ret   == intmm * (spm \div 1000000)
  IN  TruncDiv(ret, 1000)

\* stepperAxisStepsToMM for spm > 0: (float)steps / steps_per_mm, in 1/MM_SCALE mm
\* (the quotient is cut to that resolution)
stepperAxisStepsToMM(steps, spm) ==
  IF steps >= 0 THEN MulDivMod(steps * MM_SCALE, 1000000, spm)[1]
  ELSE -(MulDivMod((-steps) * MM_SCALE, 1000000, spm)[1])

\* a caller converts a distance on axis i
MMToStepsCall ==
  \E i \in Axes, mm \in MmValues :
    /\ pc.at = "idle"
    /\ conv' = [op |-> "mmToSteps", mm |-> mm, axis |-> i,
                steps_per_mm |-> stepperAxis[i].steps_per_mm,
                steps |-> stepperAxisMMToSteps(mm, stepperAxis[i].steps_per_mm),
                finite |-> TRUE, back |-> 0]
    /\ UNCHANGED <<build, eeprom, progVars, last, nwrites, pc, isr>>

\* and, no reset in between, converts the step count back; a zero steps_per_mm
\* divides by zero
StepsToMMCall ==
  /\ pc.at = "idle"
  /\ conv.op = "mmToSteps"
  /\ conv.steps_per_mm = stepperAxis[conv.axis].steps_per_mm
  /\ LET spm == stepperAxis[conv.axis].steps_per_mm
     IN  conv' = [conv EXCEPT !.op = "stepsToMM",
                              !.finite = (spm > 0),
                              !.back = IF spm > 0
                                         THEN stepperAxisStepsToMM(conv.steps, spm)
                                         ELSE 0]
  /\ UNCHANGED <<build, eeprom, progVars, last, nwrites, pc, isr>>

----------------------------------------------------------------------------
(* stepperAxisInit(true) statement by statement, with the stepping interrupt *)

\* the caller's environment switches the stepping interrupt on or off
ExtInterrupt ==
  /\ pc.at = "idle"
  /\ isr' = [isr EXCEPT !.enabled = ~isr.enabled]
  /\ last' = "external"
  /\ UNCHANGED <<build, eeprom, progVars, nwrites, pc, conv>>

\* the first block: the inversion bytes and PSTOP
InitBegin ==
  LET pe == PstopEnable(build, eeprom, pstop_enable)
  IN  /\ pc.at = "idle"
      /\ pc' = [at |-> "calib", axis |-> 0, axes_invert |-> eeprom.AXIS_INVERSION,
                endstops_invert |-> eeprom.ENDSTOP_INVERSION, length |-> 0]
      /\ pstop_enable' = pe
      /\ stepperAxisPorts' = PortsAfterPstop(build, pe, stepperAxisPorts)
      /\ last' = "init"
      /\ UNCHANGED <<build, eeprom, ports, pstop_port, stepperAxis, dda_position,
                     axis_homing, e_steps, axesEnabled, axesHardwareEnabled,
                     nwrites, isr, conv>>

\* inversion flags, steps_per_mm, max_feedrate, min_interval and length of axis pc.axis
InitCalib ==
  /\ pc.at = "calib"
  /\ \E a \in AxisCalibration(stepperAxis[pc.axis], pc.axis, pc.axes_invert,
                              pc.endstops_invert, eeprom) :
       /\ stepperAxis' = [stepperAxis EXCEPT ![pc.axis] = a]
       /\ \E length \in AxisLength(eeprom.AXIS_LENGTHS[pc.axis], a.steps_per_mm) :
            pc' = [pc EXCEPT !.at = "max", !.length = length]
  /\ UNCHANGED <<build, eeprom, stepperAxisPorts, pstop_enable, ports, pstop_port,
                 dda_position, axis_homing, e_steps, axesEnabled,
                 axesHardwareEnabled, last, nwrites, isr, conv>>

\* *axisMax = ...
InitMax ==
  /\ pc.at = "max"
  /\ \E mx \in AxisMax(pc.axis, pc.length, eeprom.AXIS_HOME_POSITIONS_STEPS,
                       build.Z_HOME_MAX) :
       stepperAxis' = [stepperAxis EXCEPT ![pc.axis].max_axis_steps_limit = mx]
  /\ pc' = [pc EXCEPT !.at = "min"]
  /\ UNCHANGED <<build, eeprom, stepperAxisPorts, pstop_enable, ports, pstop_port,
                 dda_position, axis_homing, e_steps, axesEnabled,
                 axesHardwareEnabled, last, nwrites, isr, conv>>

\* *axisMin = ...
InitMin ==
  /\ pc.at = "min"
  /\ \E mn \in AxisMin(pc.axis, pc.length, stepperAxis[pc.axis].max_axis_steps_limit) :
       stepperAxis' = [stepperAxis EXCEPT ![pc.axis].min_axis_steps_limit = mn]
  /\ pc' = [pc EXCEPT !.at = "rest"]
  /\ UNCHANGED <<build, eeprom, stepperAxisPorts, pstop_enable, ports, pstop_port,
                 dda_position, axis_homing, e_steps, axesEnabled,
                 axesHardwareEnabled, last, nwrites, isr, conv>>

\* the pins, the position, the flags and the dda of axis pc.axis; next axis
InitRest ==
  LET i == pc.axis
  IN  /\ pc.at = "rest"
      /\ ports' = [ports EXCEPT ![i] =
                     AxisPins(ports[i], stepperAxisPorts[i], stepperAxis[i].invert_endstop)]
      /\ dda_position' = [dda_position EXCEPT ![i] = 0]
      /\ stepperAxis' = [stepperAxis EXCEPT ![i] =
                           AxisSoft([@ EXCEPT !.hasHomed = FALSE,
                                              !.hasDefinePosition = FALSE], i)]
      /\ axis_homing' = [axis_homing EXCEPT ![i] = FALSE]
      /\ pc' = IF i + 1 < STEPPER_COUNT
                 THEN [pc EXCEPT !.at = "calib", !.axis = i + 1]
                 ELSE [pc EXCEPT !.at = "end"]
      /\ UNCHANGED <<build, eeprom, stepperAxisPorts, pstop_enable, pstop_port,
                     e_steps, axesEnabled, axesHardwareEnabled, last, nwrites,
                     isr, conv>>

\* the enablement bitmasks, PSTOP_PORT and e_steps; return
InitEnd ==
  /\ pc.at = "end"
  /\ axesEnabled' = 0
  /\ axesHardwareEnabled' = 0
  /\ pstop_port' = PstopPort(build, pstop_enable, pstop_port)
  /\ e_steps' = EStepsReset
  /\ pc' = PcIdle
  /\ last' = "hard"
  /\ UNCHANGED <<build, eeprom, stepperAxisPorts, pstop_enable, ports, stepperAxis,
                 dda_position, axis_homing, nwrites, isr, conv>>

\* the stepping interrupt fires and reads the travel limits of axis i;
\* stepperAxisInit never masks it, so only isr.enabled guards it
StepperISR ==
  \E i \in Axes :
    /\ isr.enabled
    /\ isr' = [isr EXCEPT !.ran = TRUE,
                          !.mid = (pc.at = "min" /\ pc.axis = i),
                          !.axis = i,
                          !.min = stepperAxis[i].min_axis_steps_limit,
                          !.max = stepperAxis[i].max_axis_steps_limit]
    /\ UNCHANGED <<build, eeprom, progVars, last, nwrites, pc, conv>>

----------------------------------------------------------------------------
(* Specifications *)

\* the calibration loader: resets and changes of the persisted values
Next ==
  \/ HardReset
  \/ SoftReset
  \/ WriteStepsPerMM
  \/ WriteMaxFeedrate
  \/ WriteAxisLength
  \/ WriteHomePosition
  \/ WriteInversion

Spec == Init /\ [][Next]_vars

\* resets against the external writers of the shared state
NextShared ==
  \/ HardReset
  \/ SoftReset
  \/ WriteStepsPerMM
  \/ WriteInversion
  \/ ExtStep
  \/ ExtHoming
  \/ ExtDefinePosition
  \/ ExtEnable

SpecShared == Init /\ [][NextShared]_vars

\* the power-on state of the default build (neither compile-time switch set)
InitDefault == Init /\ build = DefaultBuild

\* the conversions on the loaded steps_per_mm (no build switch reaches them)
NextConv ==
  \/ HardReset
  \/ WriteStepsPerMM
  \/ MMToStepsCall
  \/ StepsToMMCall

SpecConv == InitDefault /\ [][NextConv]_vars

\* a hard reset interleaved with the stepping interrupt, in the default build
NextISR ==
  \/ WriteAxisLength
  \/ ExtInterrupt
  \/ InitBegin
  \/ InitCalib
  \/ InitMax
  \/ InitMin
  \/ InitRest
  \/ InitEnd
  \/ StepperISR

SpecISR == InitDefault /\ [][NextISR]_vars

----------------------------------------------------------------------------
(* Properties *)

CalibrationOf(a) ==
  <<a.steps_per_mm, a.max_feedrate, a.min_interval, a.min_axis_steps_limit,
    a.max_axis_steps_limit, a.invert_axis, a.invert_endstop>>

\* C1: a soft reset changes, for no axis, steps_per_mm, max_feedrate,
\* min_interval, the two travel limits, invert_axis, invert_endstop or
\* dda_position, whatever the persisted values have become since the last hard
\* reset.
SoftResetKeepsCalibration ==
  [][SoftReset =>
       /\ \A i \in Axes : CalibrationOf(stepperAxis'[i]) = CalibrationOf(stepperAxis[i])
       /\ dda_position' = dda_position]_vars

\* a soft reset has run on an axis whose loaded steps_per_mm no longer equals
\* the persisted one and whose position is not zero
SoftResetOnStaleCalibration ==
  /\ last = "soft"
  /\ \E i \in Axes :
       /\ stepperAxis[i].steps_per_mm # 0
       /\ stepperAxis[i].steps_per_mm # eeprom.AXIS_STEPS_PER_MM[i]
       /\ stepperAxis[i].max_axis_steps_limit # 0
       /\ dda_position[i] # 0

\* C2: in every state from the first hard reset on, min_axis_steps_limit <= 0 <=
\* max_axis_steps_limit for X, Y, A and B, and min_axis_steps_limit = 0 for Z,
\* for every persisted axis length, steps per mm and Z home position.
LimitsStraddleZero ==
  \A i \in Axes :
    IF i = Z_AXIS
      THEN stepperAxis[i].min_axis_steps_limit = 0
      ELSE /\ stepperAxis[i].min_axis_steps_limit <= 0
           /\ stepperAxis[i].max_axis_steps_limit >= 0

Abs(x) == IF x < 0 THEN -x ELSE x

\* x * spm in steps, rounded up in magnitude (x in 1/MM_SCALE mm, spm in 1e-6)
StepsCeil(x, spm) ==
  LET p == MulDivMod(Abs(x), spm, 1000000)
      q == p[1] \div MM_SCALE
  IN  IF p[2] = 0 /\ p[1] % MM_SCALE = 0 THEN q ELSE q + 1

\* x lies within the travel range of axis i
InTravelRange(x, i) ==
  IF x >= 0
    THEN StepsCeil(x, stepperAxis[i].steps_per_mm) <= stepperAxis[i].max_axis_steps_limit
    ELSE -StepsCeil(x, stepperAxis[i].steps_per_mm) >= stepperAxis[i].min_axis_steps_limit

\* one step's worth of distance, 1 / steps_per_mm, in 1/MM_SCALE mm, rounded up
StepDistance(spm) ==
  LET p == MulDivMod(MM_SCALE, 1000000, spm)
  IN  IF p[2] = 0 THEN p[1] ELSE p[1] + 1

\* C3: for x within the travel range of an axis with positive steps_per_mm,
\* stepperAxisStepsToMM(stepperAxisMMToSteps(x, axis), axis) differs from x by at
\* most 1 / steps_per_mm.
RoundTripWithinOneStep ==
  (/\ conv.op = "stepsToMM"
   /\ conv.steps_per_mm > 0
   /\ conv.steps_per_mm = stepperAxis[conv.axis].steps_per_mm
   /\ InTravelRange(conv.mm, conv.axis))
  => Abs(conv.back - conv.mm) <= StepDistance(conv.steps_per_mm)

Sign(x) == IF x < 0 THEN -1 ELSE 1

EndstopInversionRule ==
  last = "hard" =>
    \A i \in Axes :
      LET present == (eeprom.ENDSTOP_INVERSION \div 128) % 2 = 1
          own     == (eeprom.ENDSTOP_INVERSION \div (2 ^ i)) % 2 = 1
      IN  /\ stepperAxis[i].invert_endstop = (IF present THEN own ELSE TRUE)
          /\ ~stepperAxisPorts[i].max_null =>
               /\ ~ports[i].max_out
               /\ ports[i].max_level = stepperAxis[i].invert_endstop
          /\ ~stepperAxisPorts[i].min_null =>
               /\ ~ports[i].min_out
               /\ ports[i].min_level = stepperAxis[i].invert_endstop

\* a hard reset has run with the endstops-present bit clear and the Y bit clear
HardResetWithoutEndstops ==
  /\ last = "hard"
  /\ eeprom.ENDSTOP_INVERSION = 21
  /\ stepperAxis[Y_AXIS].invert_endstop
  /\ ports[Y_AXIS].min_level

\* C6: a hard reset leaves dda_position 0, hasHomed and hasDefinePosition false
\* for every axis and both enablement bitmasks 0; a soft reset leaves hasHomed,
\* hasDefinePosition and both bitmasks as they were.
HardResetClearsSoftResetKeeps ==
  [][/\ HardReset =>
          /\ \A i \in Axes : /\ dda_position'[i] = 0
                             /\ ~stepperAxis'[i].hasHomed
                             /\ ~stepperAxis'[i].hasDefinePosition
          /\ axesEnabled' = 0
          /\ axesHardwareEnabled' = 0
     /\ SoftReset =>
          /\ \A i \in Axes : /\ stepperAxis'[i].hasHomed = stepperAxis[i].hasHomed
                             /\ stepperAxis'[i].hasDefinePosition =
                                  stepperAxis[i].hasDefinePosition
          /\ axesEnabled' = axesEnabled
          /\ axesHardwareEnabled' = axesHardwareEnabled]_vars

\* a soft reset has run on a homed axis with an axis enabled
SoftResetOnHomedEnabled ==
  /\ last = "soft"
  /\ \E i \in Axes : stepperAxis[i].hasHomed
  /\ axesEnabled # 0
  /\ axesHardwareEnabled # 0

\* C7: right after any reset every e_steps is 0, no axis is homing, and every
\* dda has master false, direction 1, stepperDir false, its four counters 0 and
\* eAxis true exactly for A and B.
ResetClearsMotionState ==
  last \in {"hard", "soft"} =>
    /\ \A j \in Extruders : e_steps[j] = 0
    /\ \A i \in Axes :
         /\ ~axis_homing[i]
         /\ ~stepperAxis[i].dda.master
         /\ stepperAxis[i].dda.direction = 1
         /\ ~stepperAxis[i].dda.stepperDir
         /\ stepperAxis[i].dda.counter = 0
         /\ stepperAxis[i].dda.steps = 0
         /\ stepperAxis[i].dda.steps_completed = 0
         /\ stepperAxis[i].dda.master_steps = 0
         /\ stepperAxis[i].dda.eAxis = (i \in {A_AXIS, B_AXIS})

\* a soft reset has run after the step generator moved extruder A and X was homing
SoftResetAfterMotion ==
  /\ last = "soft"
  /\ dda_position[A_AXIS] = -1
  /\ stepperAxis[X_AXIS].hasHomed

\* C8: the stepping interrupt never runs between the write of an axis's
\* max_axis_steps_limit and the write of its min_axis_steps_limit, so it never
\* reads an X or Y pair that is not min = -max.
NoStepBetweenLimitWrites ==
  /\ ~isr.mid
  /\ (isr.ran /\ isr.axis \in {X_AXIS, Y_AXIS} /\ isr.max # MinInt32) => isr.min = -isr.max

\* length_mm * steps_per_mm: <<whole part, nearest integer, fits int32>>
PersistedLength(i) ==
  LET p == MulDivMod(eeprom.AXIS_LENGTHS[i], eeprom.AXIS_STEPS_PER_MM[i], 1000000)
  IN  <<p[1], IF p[2] >= 500000 THEN p[1] + 1 ELSE p[1], ~p[3]>>

\* the limits the role of axis i gives a length (default build)
LimitsFor(i, length) ==
  IF i \in {X_AXIS, Y_AXIS} THEN <<-(length \div 2), length \div 2>>
  ELSE IF i = Z_AXIS THEN <<0, length - eeprom.AXIS_HOME_POSITIONS_STEPS>>
  ELSE <<-length, length>>

LimitsOf(i) ==
  <<stepperAxis[i].min_axis_steps_limit, stepperAxis[i].max_axis_steps_limit>>

MinIntervalPositive ==
  last = "hard" =>
    \A i \in Axes :
      LET p == MulDivMod(eeprom.AXIS_STEPS_PER_MM[i], eeprom.AXIS_MAX_FEEDRATES[i],
                         60000000)
      IN  /\ stepperAxis[i].min_interval > 0
          /\ ~p[3] => stepperAxis[i].min_interval =
                        (IF p[1] = 0 THEN 500 ELSE 1000000 \div p[1])

====
